---- MODULE Spec2Model ----
(***************************************************************************)
(* The image Store of fakelink (src/src/images/store.go): the in-memory    *)
(* implementation and the S3 implementation, each driven by one caller     *)
(* that issues Put, Get and clear one after the other.  The S3 service is  *)
(* the environment: its bucket outlives the process, every request to it   *)
(* may be refused, and a listing returns one page of keys.                 *)
(***************************************************************************)
EXTENDS Integers, Sequences, FiniteSets, TLC

(* ------------------------------ bounds --------------------------------- *)

\* keys are 1..MaxKey, listed by the service in ascending order
MaxKey == 2
\* encodable images are 0..MaxImg
MaxImg == 2
\* number of keys one ListObjects reply carries (the service's page size,
\* 1000 on S3, scaled down)
MaxKeys == 1

(* ------------------------------ values --------------------------------- *)

Keys == 1..MaxKey

\* images jpeg.Encode accepts
Images == 0..MaxImg

\* an image jpeg.Encode refuses (a side longer than the format allows)
Oversized == MaxImg + 1

AllImages == Images \cup {Oversized}

\* the nil image.Image
Nil == -1

\* object bytes that are no JPEG stream
Corrupt == -2

\* a nil *s3.ObjectIdentifier in a deletion batch
NilEntry == 0

bucketName == "link-images"

NoErr == "nil"

EmptyMap == [k \in {} |-> Nil]

\* the public URL bases the service is configured with (MINIO_PUBLIC_URL),
\* as the pieces of the string: plain text and, in the second, a '%'
\* sequence of a percent-encoded path
PublicURLs ==
    { <<"http://localhost:9000">>,
      <<"http://localhost:9000/my", "%20f", "iles">> }

(* ------------------------- library functions --------------------------- *)

\* the pieces of a format string that fmt reads as verbs
IsVerb(t) == t \in {"%s", "%20f"}

\* the verb's letter
VerbChar(t) == IF t = "%s" THEN "s" ELSE "f"

\* fmt.Sprintf(format, args...) with string arguments, on the pieces of the
\* format: text is copied, "%s" prints the next argument, a verb that does
\* not take a string prints %!verb(string=arg), a verb with no argument left
\* prints %!verb(MISSING), arguments left over print %!(EXTRA string=arg)
RECURSIVE Sprintf(_, _)
Sprintf(format, args) ==
    IF format = <<>>
    THEN IF args = <<>> THEN <<>>
         ELSE <<"%!(EXTRA string=", Head(args), ")">>
    ELSE LET t == Head(format) IN
         IF ~IsVerb(t)
         THEN <<t>> \o Sprintf(Tail(format), args)
         ELSE IF args = <<>>
         THEN <<"%!", VerbChar(t), "(MISSING)">> \o Sprintf(Tail(format), args)
         ELSE IF t = "%s"
         THEN <<Head(args)>> \o Sprintf(Tail(format), Tail(args))
         ELSE <<"%!", VerbChar(t), "(string=", Head(args), ")">>
                 \o Sprintf(Tail(format), Tail(args))

\* jpeg.Encode(buf, img, nil): lossy, two neighbouring images share a stream
jpegEncode(img) ==
    IF img \in Images
    THEN [err |-> NoErr, bytes |-> img \div 2]
    ELSE [err |-> "jpeg: image is too large to encode", bytes |-> Corrupt]

\* jpeg.Decode(out.Body)
jpegDecode(bytes) ==
    IF bytes = Corrupt
    THEN [err |-> "jpeg: invalid format", img |-> Nil]
    ELSE [err |-> NoErr, img |-> 2 * bytes]

\* what a stored image reads back as after the JPEG round trip
Content(img) == jpegDecode(jpegEncode(img).bytes).img

RECURSIVE SortedKeys(_)
SortedKeys(S) ==
    IF S = {} THEN <<>>
    ELSE LET m == CHOOSE x \in S : \A y \in S : x <= y
         IN  <<m>> \o SortedKeys(S \ {m})

Min(a, b) == IF a <= b THEN a ELSE b

\* the Contents of one ListObjects reply: the first page of the bucket's
\* keys in ascending order
ListObjects(objs) ==
    SubSeq(SortedKeys(DOMAIN objs), 1, Min(MaxKeys, Cardinality(DOMAIN objs)))

\* the bucket after a DeleteObjects request the service accepted
DeleteObjects(objs, batch) ==
    LET gone == {batch[i] : i \in 1..Len(batch)} \ {NilEntry}
    IN  [k \in DOMAIN objs \ gone |-> objs[k]]

\* a request sent to the service and the error it came back with
Request(api, arg, err) == [api |-> api, arg |-> arg, err |-> err]

(* ------------------------------ state ---------------------------------- *)

VARIABLES
    backend,      \* "mem" or "s3": which Store the process is configured with
    phase,        \* "start" (not built), "ready", "dead" (log.Fatal was called)
    images,       \* InMemoryStore.images
    publicURL,    \* the publicURL argument of NewS3Store
    urlPattern,   \* S3Store.urlPattern
    bucketExists, \* the service holds the bucket link-images
    objects,      \* the bucket's objects: key -> bytes
    reqs,         \* the requests the last call sent to the service, in order
    last,         \* the last call: its arguments and what it returned
    prev,         \* the call before it, when Related to the last
    written,      \* the keys a Put has stored since the store was built
    calls         \* per caller, the call it is in the middle of

vars == <<backend, phase, images, publicURL, urlPattern, bucketExists,
          objects, reqs, last, prev, written, calls>>

\* a call: its arguments (key, img), what it returned (url, err, res) and,
\* for a Put, the image of the Put it overwrites: over is the image of the
\* call just before when that was a successful Put of the same key
Call(op, key, img, url, err, res, over) ==
    [op |-> op, key |-> key, img |-> img, url |-> url, err |-> err,
     res |-> res, over |-> over]

NoCall == Call("none", 0, Nil, <<>>, NoErr, Nil, Nil)

\* the buckets a service may already hold when the process starts
PreExisting ==
    { EmptyMap, (1 :> Corrupt), (1 :> jpegEncode(MaxImg).bytes) }

\* the request handlers that can be inside a call of the store at once
Callers == {"a", "b"}

\* the caller of clear(): the method is unexported, so that a request handler
\* cannot call it; the package's own maintenance code does, one call at a time
Cleaner == "a"

\* a call in progress: for a Put or Get of InMemoryStore the map it works on
\* (stale: clear() has replaced that map since), for a clear() of S3Store the
\* batch made from its listing and put, the last Put that returned since the
\* listing
Running(op, key, img, stale, batch, put) ==
    [op |-> op, key |-> key, img |-> img, stale |-> stale, batch |-> batch,
     put |-> put]

\* no call in progress
Idle == Running("idle", 0, Nil, FALSE, <<>>, NoCall)

Init ==
    /\ backend \in {"mem", "s3"}
    /\ phase = "start"
    /\ images = EmptyMap
    /\ urlPattern = <<>>
    /\ reqs = <<>>
    /\ last = NoCall
    /\ prev = NoCall
    /\ written = {}
    /\ calls = [c \in Callers |-> Idle]
    /\ IF backend = "mem"
       THEN /\ publicURL = <<>>
            /\ bucketExists = FALSE
            /\ objects = EmptyMap
       ELSE /\ publicURL \in PublicURLs
            /\ bucketExists \in BOOLEAN
            /\ objects \in (IF bucketExists THEN PreExisting ELSE {EmptyMap})

(* ---------------------------- InMemoryStore ---------------------------- *)

\* NewInMemoryStore: the empty map
NewInMemoryStore == EmptyMap

\* a Put that does not replace an entry the map already holds
InMemoryStore_Put_NoOverwrite(m, key, img) ==
    [images |-> [k \in DOMAIN m \cup {key} |->
                    IF k \in DOMAIN m THEN m[k] ELSE img],
     url    |-> Sprintf(<<"http://127.0.0.1/", "%s">>, <<ToString(key)>>),
     err    |-> NoErr]

\* a Put whose URL is numbered by the size of the map, not by the key
InMemoryStore_Put_UrlBySize(m, key, img) ==
    [images |-> [k \in DOMAIN m \cup {key} |-> IF k = key THEN img ELSE m[k]],
     url    |-> Sprintf(<<"http://127.0.0.1/", "%s">>,
                        <<ToString(Cardinality(DOMAIN m) + 1)>>),
     err    |-> NoErr]

\* InMemoryStore.Put on the map m
InMemoryStore_Put(m, key, img) ==
    [images |-> [k \in DOMAIN m \cup {key} |-> IF k = key THEN img ELSE m[k]],
     url    |-> Sprintf(<<"http://127.0.0.1/", "%s">>, <<ToString(key)>>),
     err    |-> NoErr]

\* InMemoryStore.Get on the map m: the zero value for a missing key
InMemoryStore_Get(m, key) == IF key \in DOMAIN m THEN m[key] ELSE Nil

\* InMemoryStore.clear
InMemoryStore_clear(m) == EmptyMap

(* ------------------------------- S3Store ------------------------------- *)

\* the service's reply to HeadBucket: an error unless the bucket is there
\* and the request gets through
HeadBucket(exists, net) == IF exists /\ net THEN NoErr ELSE "head failed"

\* the service's reply to GetObject
GetObject(objs, key, net) ==
    IF key \in DOMAIN objs /\ net
    THEN [err |-> NoErr, body |-> objs[key]]
    ELSE [err |-> "get failed", body |-> Corrupt]

\* a createBucket that does not stop on the error of CreateBucket
createBucket_IgnoresCreateError(exists, headReply, createReply) ==
    LET head   == Request("HeadBucket", bucketName, headReply)
        create == Request("CreateBucket", bucketName, createReply)
    IN  IF headReply = NoErr
        THEN [reqs |-> <<head>>, exists |-> exists, fatal |-> FALSE]
        ELSE [reqs |-> <<head, create>>,
              exists |-> exists \/ createReply = NoErr, fatal |-> FALSE]

\* S3Store.createBucket, given the replies of the service
createBucket(exists, headReply, createReply) ==
    LET head   == Request("HeadBucket", bucketName, headReply)
        create == Request("CreateBucket", bucketName, createReply)
    IN  IF headReply = NoErr
        THEN [reqs |-> <<head>>, exists |-> exists, fatal |-> FALSE]
        ELSE IF createReply = NoErr
        THEN [reqs |-> <<head, create>>, exists |-> TRUE, fatal |-> FALSE]
        ELSE [reqs |-> <<head, create>>, exists |-> exists, fatal |-> TRUE]

\* the urlPattern NewS3Store builds: publicURL + "/" + bucketName + "/%s"
NewUrlPattern(url) == url \o <<"/", bucketName, "/", "%s">>

\* a Put that does not return on the error of jpeg.Encode and uploads what
\* the buffer holds
S3Store_Put_UploadsAnyway(objs, pattern, key, img, putReply) ==
    LET enc == jpegEncode(img)
        put == Request("PutObject", key, putReply)
    IN  IF putReply # NoErr
        THEN [objects |-> objs, url |-> <<>>, err |-> putReply, reqs |-> <<put>>]
        ELSE [objects |-> [k \in DOMAIN objs \cup {key} |->
                              IF k = key THEN enc.bytes ELSE objs[k]],
              url     |-> IF enc.err = NoErr
                          THEN Sprintf(pattern, <<ToString(key)>>) ELSE <<>>,
              err     |-> enc.err,
              reqs    |-> <<put>>]

\* a Put that does not look at the error of PutObject
S3Store_Put_IgnoresPutError(objs, pattern, key, img, putReply) ==
    LET enc == jpegEncode(img)
        put == Request("PutObject", key, putReply)
    IN  IF enc.err # NoErr
        THEN [objects |-> objs, url |-> <<>>, err |-> enc.err, reqs |-> <<>>]
        ELSE [objects |-> IF putReply # NoErr THEN objs
                          ELSE [k \in DOMAIN objs \cup {key} |->
                                   IF k = key THEN enc.bytes ELSE objs[k]],
              url     |-> Sprintf(pattern, <<ToString(key)>>),
              err     |-> NoErr,
              reqs    |-> <<put>>]

\* S3Store.Put, given the service's reply to PutObject
S3Store_Put(objs, pattern, key, img, putReply) ==
    LET enc == jpegEncode(img)
        put == Request("PutObject", key, putReply)
    IN  IF enc.err # NoErr
        THEN [objects |-> objs, url |-> <<>>, err |-> enc.err, reqs |-> <<>>]
        ELSE IF putReply # NoErr
        THEN [objects |-> objs, url |-> <<>>, err |-> putReply, reqs |-> <<put>>]
        ELSE [objects |-> [k \in DOMAIN objs \cup {key} |->
                              IF k = key THEN enc.bytes ELSE objs[k]],
              url     |-> Sprintf(pattern, <<ToString(key)>>),
              err     |-> NoErr,
              reqs    |-> <<put>>]

\* a Get that logs a decoding error with log.Fatal
S3Store_Get_FatalOnDecode(objs, key, net) ==
    LET out == GetObject(objs, key, net)
        dec == jpegDecode(out.body)
        get == Request("GetObject", key, out.err)
    IN  IF out.err # NoErr
        THEN [img |-> Nil, reqs |-> <<get>>, fatal |-> FALSE]
        ELSE IF dec.err # NoErr
        THEN [img |-> Nil, reqs |-> <<get>>, fatal |-> TRUE]
        ELSE [img |-> dec.img, reqs |-> <<get>>, fatal |-> FALSE]

\* a Get that hands back the object's bytes without decoding them
S3Store_Get_NoDecode(objs, key, net) ==
    LET out == GetObject(objs, key, net)
        get == Request("GetObject", key, out.err)
    IN  IF out.err # NoErr
        THEN [img |-> Nil, reqs |-> <<get>>, fatal |-> FALSE]
        ELSE [img |-> out.body, reqs |-> <<get>>, fatal |-> FALSE]

\* a Get that logs a retrieval error with log.Fatal
S3Store_Get_FatalOnError(objs, key, net) ==
    LET out == GetObject(objs, key, net)
        dec == jpegDecode(out.body)
        get == Request("GetObject", key, out.err)
    IN  IF out.err # NoErr
        THEN [img |-> Nil, reqs |-> <<get>>, fatal |-> TRUE]
        ELSE IF dec.err # NoErr
        THEN [img |-> Nil, reqs |-> <<get>>, fatal |-> FALSE]
        ELSE [img |-> dec.img, reqs |-> <<get>>, fatal |-> FALSE]

\* S3Store.Get, given whether the request gets through; both failures are
\* logged with log.Print, which does not end the process
S3Store_Get(objs, key, net) ==
    LET out == GetObject(objs, key, net)
        dec == jpegDecode(out.body)
        get == Request("GetObject", key, out.err)
    IN  IF out.err # NoErr
        THEN [img |-> Nil, reqs |-> <<get>>, fatal |-> FALSE]
        ELSE IF dec.err # NoErr
        THEN [img |-> Nil, reqs |-> <<get>>, fatal |-> FALSE]
        ELSE [img |-> dec.img, reqs |-> <<get>>, fatal |-> FALSE]

\* a batch whose loop skips the first listed object
DeleteBatch_DropsFirst(contents) ==
    [i \in 1..Len(contents) |-> NilEntry]
        \o (IF contents = <<>> THEN <<>> ELSE Tail(contents))

\* a batch made with length 0: the listed keys and nothing else
DeleteBatch_KeysOnly(contents) == contents

\* a batch sized one past the listing: one nil entry, also for no keys
DeleteBatch_LeadingNil(contents) == <<NilEntry>> \o contents

\* the deletion batch S3Store.clear builds from a listing: make() of the
\* listing's length gives that many nil entries, append adds the keys after
DeleteBatch(contents) ==
    [i \in 1..Len(contents) |-> NilEntry] \o contents

\* a clear that logs the listing error with log.Printf and goes on
S3Store_clear_GoesOn(objs, listReply, deleteReply) ==
    LET list  == Request("ListObjects", bucketName, listReply)
        batch == IF listReply # NoErr THEN <<>>
                 ELSE DeleteBatch(ListObjects(objs))
        del   == Request("DeleteObjects", batch, deleteReply)
    IN  IF deleteReply # NoErr
        THEN [objects |-> objs, reqs |-> <<list, del>>, fatal |-> TRUE]
        ELSE [objects |-> DeleteObjects(objs, batch),
              reqs |-> <<list, del>>, fatal |-> FALSE]

\* S3Store.clear, given the service's replies to ListObjects and DeleteObjects
S3Store_clear(objs, listReply, deleteReply) ==
    LET list  == Request("ListObjects", bucketName, listReply)
        batch == DeleteBatch(ListObjects(objs))
        del   == Request("DeleteObjects", batch, deleteReply)
    IN  IF listReply # NoErr
        THEN [objects |-> objs, reqs |-> <<list>>, fatal |-> TRUE]
        ELSE IF deleteReply # NoErr
        THEN [objects |-> objs, reqs |-> <<list, del>>, fatal |-> TRUE]
        ELSE [objects |-> DeleteObjects(objs, batch),
              reqs |-> <<list, del>>, fatal |-> FALSE]

(* ------------------------------ actions -------------------------------- *)

Replies == {NoErr, "request failed"}

\* the service is asked only when a request is sent
RepliesIf(sent) == IF sent THEN Replies ELSE {NoErr}

\* the call before matters to a Get: a clear, or a call with the same key
\* that returned no error
Related(call) ==
    /\ call.op = "Get"
    /\ \/ last.op = "clear"
       \/ last.op \in {"Put", "Get"} /\ last.key = call.key /\ last.err = NoErr

Record(call) ==
    /\ last' = call
    /\ prev' = IF Related(call) THEN last ELSE NoCall

\* the image a Put of key overwrites, when the last call stored one
Over(key) ==
    IF last.op = "Put" /\ last.key = key /\ last.err = NoErr
    THEN last.img ELSE Nil

s3vars == <<publicURL, urlPattern, bucketExists, objects>>

MemNew ==
    /\ backend = "mem" /\ phase = "start"
    /\ images' = NewInMemoryStore
    /\ phase' = "ready"
    /\ Record(Call("new", 0, Nil, <<>>, NoErr, Nil, Nil))
    /\ UNCHANGED <<calls, backend, s3vars, reqs, written>>

MemPut ==
    /\ backend = "mem" /\ phase = "ready"
    /\ \E key \in Keys, img \in AllImages :
         LET r == InMemoryStore_Put(images, key, img)
         IN  /\ images' = r.images
             /\ Record(Call("Put", key, img, r.url, r.err, Nil, Over(key)))
             /\ written' = IF r.err = NoErr THEN written \cup {key} ELSE written
    /\ UNCHANGED <<calls, backend, phase, s3vars, reqs>>

\* a Get that leaves an entry with the zero value under a missing key
MemGet_Inserts ==
    /\ backend = "mem" /\ phase = "ready"
    /\ \E key \in Keys :
         /\ Record(Call("Get", key, Nil, <<>>, NoErr,
                        InMemoryStore_Get(images, key), Nil))
         /\ images' = [k \in DOMAIN images \cup {key} |->
                          IF k \in DOMAIN images THEN images[k] ELSE 0]
    /\ UNCHANGED <<calls, backend, phase, s3vars, reqs, written>>

MemGet ==
    /\ backend = "mem" /\ phase = "ready"
    /\ \E key \in Keys :
         Record(Call("Get", key, Nil, <<>>, NoErr,
                     InMemoryStore_Get(images, key), Nil))
    /\ UNCHANGED <<calls, backend, phase, images, s3vars, reqs, written>>

MemClear ==
    /\ backend = "mem" /\ phase = "ready"
    /\ images' = InMemoryStore_clear(images)
    /\ Record(Call("clear", 0, Nil, <<>>, NoErr, Nil, Nil))
    /\ UNCHANGED <<calls, backend, phase, s3vars, reqs, written>>

NewS3Store ==
    /\ backend = "s3" /\ phase = "start"
    /\ \E net \in BOOLEAN :
       \E createReply \in RepliesIf(HeadBucket(bucketExists, net) # NoErr) :
         LET r == createBucket(bucketExists, HeadBucket(bucketExists, net),
                               createReply)
         IN  /\ urlPattern' = NewUrlPattern(publicURL)
             /\ bucketExists' = r.exists
             /\ reqs' = r.reqs
             /\ phase' = IF r.fatal THEN "dead" ELSE "ready"
    /\ Record(Call("new", 0, Nil, <<>>, NoErr, Nil, Nil))
    /\ UNCHANGED <<calls, backend, images, publicURL, objects, written>>

\* a clear() in progress sees the Puts that return while it runs
NotePut(call) ==
    [c \in Callers |->
        IF calls[c].op = "clear" /\ call.err = NoErr
        THEN [calls[c] EXCEPT !.put = call] ELSE calls[c]]

S3Put ==
    /\ backend = "s3" /\ phase = "ready"
    /\ \E key \in Keys, img \in AllImages :
       \E putReply \in RepliesIf(jpegEncode(img).err = NoErr) :
         LET r == S3Store_Put(objects, urlPattern, key, img, putReply)
         IN  /\ objects' = r.objects
             /\ reqs' = r.reqs
             /\ Record(Call("Put", key, img, r.url, r.err, Nil, Over(key)))
             /\ written' = IF r.err = NoErr THEN written \cup {key} ELSE written
             /\ calls' = NotePut(Call("Put", key, img, r.url, r.err, Nil, Nil))
    /\ UNCHANGED <<backend, phase, images, publicURL, urlPattern, bucketExists>>

S3Get ==
    /\ backend = "s3" /\ phase = "ready"
    /\ \E key \in Keys, net \in BOOLEAN :
         LET r == S3Store_Get(objects, key, net)
         IN  /\ reqs' = r.reqs
             /\ phase' = IF r.fatal THEN "dead" ELSE "ready"
             /\ Record(Call("Get", key, Nil, <<>>, NoErr, r.img, Nil))
    /\ UNCHANGED <<calls, backend, images, s3vars, written>>

S3Clear ==
    /\ backend = "s3" /\ phase = "ready"
    /\ \E listReply \in Replies :
       \E deleteReply \in RepliesIf(listReply = NoErr) :
         LET r == S3Store_clear(objects, listReply, deleteReply)
         IN  /\ objects' = r.objects
             /\ reqs' = r.reqs
             /\ phase' = IF r.fatal THEN "dead" ELSE "ready"
    /\ Record(Call("clear", 0, Nil, <<>>, NoErr, Nil, Nil))
    /\ UNCHANGED <<calls, backend, images, publicURL, urlPattern, bucketExists, written>>

Next ==
    \/ MemNew
    \/ MemPut
    \/ MemGet
    \/ MemClear
    \/ NewS3Store
    \/ S3Put
    \/ S3Get
    \/ S3Clear

Spec == Init /\ [][Next]_vars

(* ------------------- calls that run at the same time ------------------- *)

\* Every request is served by a handler of its own, and the handlers share
\* the one store.  A call of InMemoryStore reads the field images and then
\* works on the map it found; clear() of S3Store sends two requests.  The
\* actions below take such a call in two steps, so that other callers' steps
\* fall in between.  last and prev keep describing calls made one at a time.

\* what a caller waits for before it touches the map: InMemoryStore holds
\* no lock, so nothing
MayEnter_Mutex(cs, c) == \A d \in Callers \ {c} : cs[d] = Idle

MayEnter(cs, c) == TRUE

\* caller d is at work on the map that caller c is at work on (with two
\* callers, a map that clear() has replaced has one caller at most)
SameMap(c, d) ==
    /\ d # c
    /\ calls[c].op \in {"Put", "Get"} /\ calls[d].op \in {"Put", "Get"}
    /\ calls[d].stale = calls[c].stale

\* an unsynchronised access of caller c to a map another caller is at work
\* on, one of them writing
Racing(c) ==
    \E d \in Callers : SameMap(c, d) /\ "Put" \in {calls[c].op, calls[d].op}

\* how a map access ends: a racing one also with the write lost or with
\* the runtime's fatal error on concurrent map access
Outcomes(racing) == IF racing THEN {"done", "lost", "fatal"} ELSE {"done"}

cvars == <<backend, s3vars, reqs, last, prev>>

BeginPut(c) ==
    /\ backend = "mem" /\ phase = "ready"
    /\ calls[c] = Idle /\ MayEnter(calls, c)
    /\ \E key \in Keys, img \in Images :
         calls' = [calls EXCEPT
                      ![c] = Running("Put", key, img, FALSE, <<>>, NoCall)]
    /\ UNCHANGED <<cvars, phase, images, written>>

EndPut(c) ==
    /\ backend = "mem" /\ phase = "ready"
    /\ calls[c].op = "Put"
    /\ \E outcome \in Outcomes(Racing(c)) :
         LET lands == outcome = "done" /\ ~calls[c].stale
         IN  /\ images' = IF lands
                          THEN InMemoryStore_Put(images, calls[c].key,
                                                 calls[c].img).images
                          ELSE images
             /\ written' = IF lands THEN written \cup {calls[c].key}
                           ELSE written
             /\ phase' = IF outcome = "fatal" THEN "dead" ELSE "ready"
    /\ calls' = [calls EXCEPT ![c] = Idle]
    /\ UNCHANGED cvars

BeginGet(c) ==
    /\ backend = "mem" /\ phase = "ready"
    /\ calls[c] = Idle /\ MayEnter(calls, c)
    /\ \E key \in Keys :
         calls' = [calls EXCEPT
                      ![c] = Running("Get", key, Nil, FALSE, <<>>, NoCall)]
    /\ UNCHANGED <<cvars, phase, images, written>>

EndGet(c) ==
    /\ backend = "mem" /\ phase = "ready"
    /\ calls[c].op = "Get"
    /\ \E outcome \in Outcomes(Racing(c)) \ {"lost"} :
         phase' = IF outcome = "fatal" THEN "dead" ELSE "ready"
    /\ calls' = [calls EXCEPT ![c] = Idle]
    /\ UNCHANGED <<cvars, images, written>>

BeginClear(c) ==
    /\ backend = "mem" /\ phase = "ready"
    /\ calls[c] = Idle /\ MayEnter(calls, c)
    /\ calls' = [calls EXCEPT
                    ![c] = Running("clear", 0, Nil, FALSE, <<>>, NoCall)]
    /\ UNCHANGED <<cvars, phase, images, written>>

\* the assignment to the field images: the calls under way keep the old map
EndClear(c) ==
    /\ backend = "mem" /\ phase = "ready"
    /\ calls[c].op = "clear"
    /\ images' = InMemoryStore_clear(images)
    /\ calls' = [d \in Callers |->
                    IF d = c THEN Idle
                    ELSE IF calls[d].op \in {"Put", "Get"}
                    THEN [calls[d] EXCEPT !.stale = TRUE]
                    ELSE calls[d]]
    /\ UNCHANGED <<cvars, phase, written>>

InitRace == Init /\ backend = "mem"

NextRace ==
    \/ MemNew
    \/ \E c \in Callers : BeginPut(c)
    \/ \E c \in Callers : EndPut(c)
    \/ \E c \in Callers : BeginGet(c)
    \/ \E c \in Callers : EndGet(c)
    \/ BeginClear(Cleaner)
    \/ EndClear(Cleaner)

SpecRace == InitRace /\ [][NextRace]_vars

\* S3Store.clear up to the reply to ListObjects; reqs shows the requests of
\* a call when the call has returned
ClearList(c) ==
    /\ backend = "s3" /\ phase = "ready"
    /\ calls[c] = Idle
    /\ \E listReply \in Replies :
         IF listReply # NoErr
         THEN /\ phase' = "dead"
              /\ reqs' = <<Request("ListObjects", bucketName, listReply)>>
              /\ Record(Call("clear", 0, Nil, <<>>, NoErr, Nil, Nil))
              /\ UNCHANGED calls
         ELSE /\ calls' = [calls EXCEPT
                             ![c] = Running("clear", 0, Nil, FALSE,
                                      DeleteBatch(ListObjects(objects)),
                                      NoCall)]
              /\ UNCHANGED <<phase, reqs, last, prev>>
    /\ UNCHANGED <<backend, images, s3vars, written>>

\* a clear() that lists the bucket again before it deletes
ClearDelete_Relists(c) ==
    /\ backend = "s3" /\ phase = "ready"
    /\ calls[c].op = "clear"
    /\ \E deleteReply \in Replies :
         LET batch == DeleteBatch(ListObjects(objects))
             after == IF deleteReply = NoErr
                      THEN DeleteObjects(objects, batch) ELSE objects
         IN  /\ objects' = after
             /\ reqs' = <<Request("ListObjects", bucketName, NoErr),
                          Request("DeleteObjects", batch, deleteReply)>>
             /\ phase' = IF deleteReply # NoErr THEN "dead" ELSE "ready"
             /\ calls' = [calls EXCEPT ![c] = Idle]
    /\ last' = Call("clear", 0, Nil, <<>>, NoErr, Nil, Nil)
    /\ prev' = calls[c].put
    /\ UNCHANGED <<backend, images, publicURL, urlPattern, bucketExists, written>>

\* S3Store.clear from there: the DeleteObjects request for the batch made
\* from the listing.  prev becomes the Put that returned meanwhile, if any.
ClearDelete(c) ==
    /\ backend = "s3" /\ phase = "ready"
    /\ calls[c].op = "clear"
    /\ \E deleteReply \in Replies :
         LET batch == calls[c].batch
             after == IF deleteReply = NoErr
                      THEN DeleteObjects(objects, batch) ELSE objects
         IN  /\ objects' = after
             /\ reqs' = <<Request("ListObjects", bucketName, NoErr),
                          Request("DeleteObjects", batch, deleteReply)>>
             /\ phase' = IF deleteReply # NoErr THEN "dead" ELSE "ready"
             /\ calls' = [calls EXCEPT ![c] = Idle]
    /\ last' = Call("clear", 0, Nil, <<>>, NoErr, Nil, Nil)
    /\ prev' = calls[c].put
    /\ UNCHANGED <<backend, images, publicURL, urlPattern, bucketExists, written>>

\* the store on S3, at the public URL of the development setup
InitSnap ==
    /\ Init
    /\ backend = "s3"
    /\ publicURL = <<"http://localhost:9000">>

NextSnap ==
    \/ NewS3Store
    \/ S3Put
    \/ S3Get
    \/ ClearList(Cleaner)
    \/ ClearDelete(Cleaner)

SpecSnap == InitSnap /\ [][NextSnap]_vars

(* ------------------------------ claims --------------------------------- *)

\* the key -> content mapping of the configured store
TheStore == IF backend = "mem" THEN images ELSE objects

\* what Get gives back for an image that was stored: the image itself in
\* memory, the image after the JPEG round trip on S3
Stored(img) == IF backend = "mem" THEN img ELSE Content(img)

\* what a Get that reaches the store returns for key
Lookup(key) ==
    IF backend = "mem" THEN InMemoryStore_Get(images, key)
    ELSE S3Store_Get(objects, key, TRUE).img

\* the number of entries the store holds for key
Entries(key) == Cardinality({k \in DOMAIN TheStore : k = key})

\* the last call sent a request the service answered with an error
Refused == \E i \in 1..Len(reqs) : reqs[i].err # NoErr

Sent(api) == {i \in 1..Len(reqs) : reqs[i].api = api}

\* C1: on InMemoryStore, whatever calls came before, a Get(k) that
\* immediately follows Put(k, i) returns exactly i.
C1_PutThenGet ==
    (backend = "mem" /\ last.op = "Get" /\ prev.op = "Put"
        /\ prev.key = last.key)
    => last.res = prev.img

\* C1 witness: a Get right after a Put of the same key, in a map that held
\* another image under that key and holds a second key.
C1_Witness ==
    /\ backend = "mem" /\ last.op = "Get" /\ prev.op = "Put"
    /\ prev.key = last.key /\ last.res = prev.img
    /\ prev.over \notin {Nil, prev.img}
    /\ Cardinality(DOMAIN images) > 1

\* a Get(k) that immediately follows a successful Put(k, i2), itself
\* immediately following a successful Put(k, i1)
C2Case ==
    /\ last.op = "Get" /\ prev.op = "Put" /\ prev.err = NoErr
    /\ prev.key = last.key /\ prev.over # Nil

\* C2 as claimed: on both backends, after a successful Put(k, i1) followed by
\* a successful Put(k, i2), Get(k) returns the content of i2, never that of
\* i1, and the store holds a single entry for k.
C2_LastWriteWins ==
    C2Case =>
        /\ last.res = Stored(prev.img)
        /\ Stored(prev.over) # Stored(prev.img) => last.res # Stored(prev.over)
        /\ Entries(last.key) = 1

\* C2 as amended: the same, except that on S3 a Get whose GetObject request
\* fails returns the nil image; every other Get returns the content of i2.
C2_LastWriteWinsIfRetrieved ==
    C2Case =>
        /\ last.res = (IF backend = "s3" /\ Refused THEN Nil
                       ELSE Stored(prev.img))
        /\ Stored(prev.over) # Stored(prev.img) => last.res # Stored(prev.over)
        /\ Entries(last.key) = 1

\* C2 witness: on S3, two successful Puts of images with different content
\* under one key, then a Get that returns the content of the second.
C2_Witness ==
    /\ C2Case /\ backend = "s3"
    /\ Stored(prev.over) # Stored(prev.img)
    /\ last.res = Stored(prev.img)

\* C3 as claimed: on both backends, Get(k) for a key no Put has written since
\* the store was constructed returns the nil image and does not end the
\* process.
C3_GetNeverWritten ==
    (last.op = "Get" /\ last.key \notin written)
    => (last.res = Nil /\ last.err = NoErr /\ phase # "dead")

\* C3 as amended: on both backends, Get(k) for a key the store holds no
\* entry for (on S3: no object in the bucket, whoever wrote it) returns the
\* nil image and does not end the process.
C3_GetAbsentKey ==
    (last.op = "Get" /\ last.key \notin DOMAIN TheStore)
    => (last.res = Nil /\ last.err = NoErr /\ phase # "dead")

\* C3 witness: on S3, a Get of a key with no object, refused by the service
\* with an error, that returned nil and left the process running.
C3_Witness ==
    /\ backend = "s3" /\ last.op = "Get" /\ last.key \notin DOMAIN objects
    /\ Refused /\ last.res = Nil /\ phase = "ready"

\* C4 as claimed: on both backends, a Get(k) right after clear() returned
\* gives the nil image for every key k written before the clear, however
\* many keys were written.
C4_ClearThenGet ==
    (last.op = "Get" /\ prev.op = "clear" /\ last.key \in written)
    => last.res = Nil

\* C5 as claimed: after clear() returned the store answers as a newly built
\* empty store does: every key reads as absent.
C5_ClearLikeNew ==
    (last.op = "clear" /\ phase = "ready")
    => \A k \in Keys : Lookup(k) = Nil

\* the deletion batches of the last call hold no nil entry
NoNilInBatch ==
    \A i \in Sent("DeleteObjects") :
        \A j \in 1..Len(reqs[i].arg) : reqs[i].arg[j] # NilEntry

\* C6 as claimed: S3Store.clear() on an empty bucket does not fail and sends
\* no delete request whose batch holds a nil entry.
C6_ClearEmptyBucket ==
    [][(backend = "s3" /\ DOMAIN objects = {} /\ last'.op = "clear")
        => (phase' # "dead" /\ NoNilInBatch')]_vars

\* C6 as amended: S3Store.clear() on an empty bucket sends no delete
\* request whose batch holds a nil entry (the batch it sends after a
\* successful listing is empty), and it fails, ending the process, exactly
\* when the service refuses its listing or its delete request.
C6_ClearEmptyBucketUnlessRefused ==
    [][(backend = "s3" /\ DOMAIN objects = {} /\ last'.op = "clear")
        => /\ NoNilInBatch'
           /\ (phase' = "dead") <=> Refused'
           /\ reqs'[1].err = NoErr =>
                 (Len(reqs') = 2 /\ reqs'[2].api = "DeleteObjects"
                    /\ reqs'[2].arg = <<>>)]_vars

\* C6 witness: a clear of an empty bucket that returned after a listing and
\* a delete request with an empty batch.
C6_Witness ==
    /\ backend = "s3" /\ last.op = "clear" /\ phase = "ready"
    /\ Len(reqs) = 2 /\ reqs[2].api = "DeleteObjects" /\ reqs[2].arg = <<>>

\* C7 as claimed: NewS3Store against a service that already holds the bucket
\* sends no CreateBucket request, whatever HeadBucket answers.
C7_NoRecreate ==
    [][(backend = "s3" /\ bucketExists /\ last'.op = "new")
        => Sent("CreateBucket")' = {}]_vars

\* C8: NewS3Store returns a store only with the bucket in place, ends the
\* process when the bucket was neither verified nor created, and sends at
\* most one HeadBucket and one CreateBucket.
C8_BucketOrFatal ==
    (backend = "s3" /\ last.op = "new")
    => /\ phase \in {"ready", "dead"}
       /\ phase = "ready" => bucketExists
       /\ (\A i \in 1..Len(reqs) : reqs[i].err # NoErr) => phase = "dead"
       /\ Cardinality(Sent("HeadBucket")) <= 1
       /\ Cardinality(Sent("CreateBucket")) <= 1

\* C8 witness: a construction that found no bucket, created it and returned.
C8_Witness ==
    /\ backend = "s3" /\ last.op = "new" /\ phase = "ready"
    /\ Sent("CreateBucket") # {} /\ bucketExists

\* C9 as claimed: S3Store.Put(k, i) returns a nil error and the URL
\* <publicURL>/link-images/<k> exactly when the encoding and the upload both
\* succeed, and a non-nil error with an empty URL otherwise.
C9_PutResult ==
    (backend = "s3" /\ last.op = "Put")
    => IF jpegEncode(last.img).err = NoErr /\ Sent("PutObject") # {} /\ ~Refused
       THEN /\ last.err = NoErr
            /\ last.url = publicURL \o <<"/", "link-images", "/", ToString(last.key)>>
       ELSE /\ last.err # NoErr
            /\ last.url = <<>>

\* C10: InMemoryStore.Put(k, i) returns a nil error and the URL
\* http://127.0.0.1/<k>, whatever the image and the map.
C10_MemPutUrl ==
    (backend = "mem" /\ last.op = "Put")
    => /\ last.err = NoErr
       /\ last.url = <<"http://127.0.0.1/", ToString(last.key)>>

\* C10 witness: a Put of an image no JPEG could hold, under a key the map
\* already held, that returned the URL of the key.
C10_Witness ==
    /\ backend = "mem" /\ last.op = "Put" /\ last.img = Oversized
    /\ Cardinality(DOMAIN images) > 1
    /\ last.url = <<"http://127.0.0.1/", ToString(last.key)>>

\* the last call is a Put on S3 whose image jpeg.Encode refuses
EncodeFailed == backend = "s3" /\ last.op = "Put" /\ jpegEncode(last.img).err # NoErr

\* C11: when the encoding fails, S3Store.Put returns an error, sends no
\* request to the service and leaves the bucket, the object under that key
\* included, as it was.
C11_EncodeErrorShortCircuits ==
    [][EncodeFailed' =>
          (last'.err # NoErr /\ reqs' = <<>> /\ objects' = objects)]_vars

\* C11 witness: a Put of an image that cannot be encoded, under a key that
\* holds an object, returned an error without a request.
C11_Witness ==
    /\ EncodeFailed /\ last.err # NoErr /\ reqs = <<>>
    /\ last.key \in DOMAIN objects

\* the last Get fetched an object that is no JPEG stream
DecodeFailed ==
    /\ backend = "s3" /\ last.op = "Get" /\ ~Refused
    /\ last.key \in DOMAIN objects /\ objects[last.key] = Corrupt

\* C12: S3Store.Get reports a missing object, a refused request and a
\* decoding error alike as the nil image, the result for a key that never
\* existed, without an error and without ending the process.
C12_GetSwallowsFailures ==
    (backend = "s3" /\ last.op = "Get" /\ (Refused \/ DecodeFailed))
    => /\ last.res = Nil
       /\ last.res = S3Store_Get(EmptyMap, last.key, TRUE).img
       /\ last.err = NoErr
       /\ phase = "ready"

\* C12 witness: a Get that fetched an object that is no JPEG stream and
\* returned nil with the process running.
C12_Witness == DecodeFailed /\ last.res = Nil /\ phase = "ready"

\* a Get(k) on S3 that immediately follows a successful Put(k, i), with the
\* service answering the GetObject request
C13Case ==
    /\ backend = "s3" /\ last.op = "Get" /\ prev.op = "Put"
    /\ prev.err = NoErr /\ prev.key = last.key /\ ~Refused

\* C13: on S3Store with a service that answers, a successful Put(k, i)
\* immediately followed by Get(k) returns a non-nil image equal to
\* decode(encode(i)).
C13_PutThenGetLossy ==
    C13Case =>
        (last.res # Nil /\ last.res = jpegDecode(jpegEncode(prev.img).bytes).img)

\* C13 witness: such a Get returned an image that differs from the one put,
\* as the encoding is lossy.
C13_Witness == C13Case /\ last.res # Nil /\ last.res # prev.img

\* C14: in S3Store.clear() a refused listing or delete request ends the
\* process; after a refused listing no delete request is sent and the
\* bucket is as it was; neither request is sent twice.
C14_ClearFailureFatal ==
    [][(backend = "s3" /\ last'.op = "clear")
        => /\ Refused' => phase' = "dead"
           /\ reqs'[1].api = "ListObjects"
           /\ reqs'[1].err # NoErr =>
                 (Sent("DeleteObjects")' = {} /\ objects' = objects)
           /\ Cardinality(Sent("ListObjects")') = 1
           /\ Cardinality(Sent("DeleteObjects")') <= 1]_vars

\* C14 witness: a clear of a bucket with objects whose listing was refused:
\* one request, the process ended, the objects still there.
C14_Witness ==
    /\ backend = "s3" /\ last.op = "clear" /\ phase = "dead"
    /\ Len(reqs) = 1 /\ reqs[1].err # NoErr /\ DOMAIN objects # {}

\* the number of entries of batch that name key
Count(batch, key) == Cardinality({j \in 1..Len(batch) : batch[j] = key})

\* C15: a clear() whose listing succeeds sends one ListObjects request, then
\* one DeleteObjects request, whose batch holds the key of every listed
\* object exactly once.
C15_OneListOneDelete ==
    [][(backend = "s3" /\ last'.op = "clear" /\ reqs'[1].err = NoErr)
        => /\ Len(reqs') = 2
           /\ reqs'[1].api = "ListObjects"
           /\ reqs'[2].api = "DeleteObjects"
           /\ \A i \in 1..Len(ListObjects(objects)) :
                 Count(reqs'[2].arg, ListObjects(objects)[i]) = 1]_vars

\* C15 witness: a clear that listed a key and sent it in its one delete
\* request, which removed the object.
C15_Witness ==
    /\ backend = "s3" /\ last.op = "clear" /\ phase = "ready"
    /\ Len(reqs) = 2 /\ reqs[2].api = "DeleteObjects"
    /\ \E k \in Keys : Count(reqs[2].arg, k) = 1 /\ k \notin DOMAIN objects

C19_GetReadOnly ==
    [][last'.op = "Get"
        => /\ TheStore' = TheStore
           /\ (last.op = "Get" /\ last.key = last'.key)
                 => last'.res = last.res]_vars

\* C19 as amended: the same, except that on S3 a Get whose GetObject request
\* is refused returns nil whatever the Get(k) before or after it returns.
C19_GetReadOnlyIfRetrieved ==
    [][last'.op = "Get"
        => /\ TheStore' = TheStore
           /\ (last.op = "Get" /\ last.key = last'.key)
                 => \/ last'.res = last.res
                    \/ /\ backend = "s3"
                       /\ \/ Refused /\ last.res = Nil
                          \/ Refused' /\ last'.res = Nil]_vars

\* C19 witness: two Gets in a row of a key the store has no entry for, both
\* nil, and still no entry.
C19_Witness ==
    /\ last.op = "Get" /\ prev.op = "Get" /\ prev.key = last.key
    /\ last.res = Nil /\ prev.res = Nil
    /\ last.key \notin DOMAIN TheStore /\ backend = "mem"

\* C17: InMemoryStore has no mutual exclusion: a caller that wants to Put or
\* clear() starts at once, whatever call of another caller is under way on
\* the map, so that two unsynchronised accesses to the map at the same time,
\* one of them a write, are reachable (C17_Witness).
C17_NoMutualExclusion ==
    (backend = "mem" /\ phase = "ready")
    => /\ \A c \in Callers : calls[c] = Idle => ENABLED BeginPut(c)
       /\ calls[Cleaner] = Idle => ENABLED BeginClear(Cleaner)

\* C17 witness: one caller is in a Put on the current map while the other is
\* in a Put on the same map, and the next state can be the runtime's fatal
\* error.
C17_Witness ==
    /\ backend = "mem" /\ phase = "ready"
    /\ \E c, d \in Callers :
         /\ c # d
         /\ calls[c].op = "Put" /\ ~calls[c].stale
         /\ calls[d].op = "Put" /\ ~calls[d].stale
         /\ Racing(c)

\* a clear() on S3 has returned, and since its listing a Put(k, i) has
\* returned for a key k that the listing did not hold
C18Case ==
    /\ backend = "s3" /\ last.op = "clear" /\ phase = "ready"
    /\ prev.op = "Put" /\ prev.err = NoErr
    /\ Count(reqs[2].arg, prev.key) = 0

\* the step in which a clear() on S3 returns, a Put(k, i) having returned
\* since its listing for a key k that the listing did not hold
C18Returns ==
    /\ backend = "s3"
    /\ calls[Cleaner].op = "clear" /\ calls'[Cleaner] = Idle
    /\ phase' = "ready"
    /\ calls[Cleaner].put.op = "Put"
    /\ Count(calls[Cleaner].batch, calls[Cleaner].put.key) = 0

\* the object of the Put that prev shows is in the bucket
C18Kept ==
    /\ prev.key \in DOMAIN objects
    /\ objects[prev.key] = jpegEncode(prev.img).bytes

\* C18 as claimed: S3Store.clear() deletes the keys of its listing only: a
\* Put(k, i) of a key absent from the listing that returns between the
\* listing and the delete request leaves k stored when clear returns, and
\* a Get(k) that follows returns its image.
C18_SnapshotDelete ==
    [][/\ C18Returns => C18Kept'
       /\ C18Case
            => /\ C18Kept
               /\ (last'.op = "Get" /\ last'.key = prev.key)
                     => last'.res = Stored(prev.img)]_vars

\* C18 as amended: the same, unless the GetObject request of that Get is
\* refused, in which case the Get returns nil.
C18_SnapshotDeleteIfRetrieved ==
    [][/\ C18Returns => C18Kept'
       /\ C18Case
            => /\ C18Kept
               /\ (last'.op = "Get" /\ last'.key = prev.key)
                     => \/ last'.res = Stored(prev.img)
                        \/ Refused' /\ last'.res = Nil]_vars

\* C18 witness: a clear() that deleted the key it had listed has returned,
\* and the key put meanwhile is stored.
C18_Witness ==
    /\ C18Case
    /\ \E k \in Keys : Count(reqs[2].arg, k) = 1 /\ k \notin DOMAIN objects
    /\ prev.key \in DOMAIN objects

====
